---- MODULE Spec2Model ----
(***************************************************************************)
(* Group-buying coordination of Kyren (backend/app): the join_group        *)
(* callback of services/bale.py, process_new_order, get_discount_percentage*)
(* rearrange_incomplete_groups and check_expired_groups of                 *)
(* services/group_manager.py, over the store operations of db/crud.py.     *)
(*                                                                         *)
(* The store (groups, orders) holds committed rows only.  Every handler    *)
(* works in its own SQLAlchemy session: what it assigns to a loaded object *)
(* stays local until its next db.commit().  A handler is cut into steps at *)
(* its suspension points (the awaited bale_client.send_message calls); the *)
(* sends of one loop are one suspension point, since nothing is read or    *)
(* committed between them.                                                 *)
(***************************************************************************)
EXTENDS Integers, Sequences, FiniteSets, TLC

VARIABLES
    groups,     \* table group_buys: groups[id] is the committed row
    orders,     \* table orders: orders[id] is the committed row
    calls,      \* calls[id]: the process_new_order(order_id = id) invocation
    tasks,      \* the rearrange_incomplete_groups / check_expired_groups runs
    resolver,   \* input and result of a stand-alone get_discount_percentage call
    webhook     \* what bale_webhook answered to the last callback that failed

vars == <<groups, orders, calls, tasks, resolver, webhook>>

(* ------------------------------- bounds -------------------------------- *)

MaxOrders == 4      \* orders created in one behaviour of handlers run one by one
MaxConcOrders == 3  \* orders created in one behaviour of interleaved handlers
MaxInFlight == 2    \* handlers that are between their call and their return at once
MaxTiers == 3       \* discount tiers of a product given to the resolver alone
MaxSendFailures == 2 \* sends of one handler run that are let fail

(* --------------------------- program constants ------------------------- *)

None == -1                  \* a NULL discount_price
ExpirationDays == 7         \* timedelta(days=7)
DepositPercent == 10        \* deposit_amount = product.price * 0.1

PENDING == "pending"
CONFIRMED == "confirmed"
CANCELLED == "cancelled"

(* ------------------------------ test data ------------------------------ *)

\* Rows of table products (immutable here).  Prices are multiples of 100 so
\* that every percentage of them is an integer.
products ==
    1 :> [price |-> 100, min_group_size |-> 2, discount_percentage |-> 10,
          discount_tiers |-> << [group_size |-> 2, discount_percentage |-> 5],
                                [group_size |-> 3, discount_percentage |-> 20] >>]
    @@
    2 :> [price |-> 200, min_group_size |-> 3, discount_percentage |-> 20,
          discount_tiers |-> << >>]

ProductIds == DOMAIN products
UnknownProductIds == {3}     \* product ids of join_group callbacks that name no row
TaskIds == {1, 2}
\* days that pass between two observations: a group untouched for one step
\* is exactly ExpirationDays old (not yet expired), for two steps it is older
TickSteps == {ExpirationDays}

(* ------------------------------- helpers ------------------------------- *)

Range(s) == {s[i] : i \in DOMAIN s}

Min(S) == CHOOSE x \in S : \A y \in S : x <= y
Max(S) == CHOOSE x \in S : \A y \in S : x >= y

RECURSIVE Ascending(_)
Ascending(S) == IF S = {} THEN << >> ELSE << Min(S) >> \o Ascending(S \ {Min(S)})

RECURSIVE Descending(_)
Descending(S) == IF S = {} THEN << >> ELSE << Max(S) >> \o Descending(S \ {Max(S)})

\* seq[from+1 .. to], Python's seq[from:to]
Slice(seq, from, to) ==
    LET hi == IF to < Len(seq) THEN to ELSE Len(seq)
    IN  IF from >= hi THEN << >> ELSE SubSeq(seq, from + 1, hi)

(* --------------------------- Discount Resolver ------------------------- *)

\* list.sort(key=lambda x: x.discount_percentage, reverse=True): a stable
\* insertion of each element behind the elements that are not smaller.
RECURSIVE InsertByDiscountDesc(_, _)
InsertByDiscountDesc(sorted, tier) ==
    IF sorted = << >> THEN << tier >>
    ELSE IF Head(sorted).discount_percentage >= tier.discount_percentage
         THEN << Head(sorted) >> \o InsertByDiscountDesc(Tail(sorted), tier)
         ELSE << tier >> \o sorted

RECURSIVE SortByDiscountDesc(_)
SortByDiscountDesc(tiers) ==
    IF tiers = << >> THEN << >>
    ELSE InsertByDiscountDesc(SortByDiscountDesc(SubSeq(tiers, 1, Len(tiers) - 1)),
                              tiers[Len(tiers)])

ApplicableTiers(product, group_size) ==
    SelectSeq(product.discount_tiers, LAMBDA tier : tier.group_size <= group_size)

\* The mutant of get_discount_percentage: the tier of the highest threshold.
RECURSIVE InsertByGroupSizeDesc(_, _)
InsertByGroupSizeDesc(sorted, tier) ==
    IF sorted = << >> THEN << tier >>
    ELSE IF Head(sorted).group_size >= tier.group_size
         THEN << Head(sorted) >> \o InsertByGroupSizeDesc(Tail(sorted), tier)
         ELSE << tier >> \o sorted

RECURSIVE SortByGroupSizeDesc(_)
SortByGroupSizeDesc(tiers) ==
    IF tiers = << >> THEN << >>
    ELSE InsertByGroupSizeDesc(SortByGroupSizeDesc(SubSeq(tiers, 1, Len(tiers) - 1)),
                               tiers[Len(tiers)])

get_discount_percentage_HighestThreshold(product, group_size) ==
    LET applicable_tiers == ApplicableTiers(product, group_size)
    IN  IF product.discount_tiers # << >> /\ applicable_tiers # << >>
        THEN SortByGroupSizeDesc(applicable_tiers)[1].discount_percentage
        ELSE IF group_size >= product.min_group_size
             THEN product.discount_percentage
             ELSE 0

get_discount_percentage(product, group_size) ==
    LET applicable_tiers == ApplicableTiers(product, group_size)
    IN  IF product.discount_tiers # << >> /\ applicable_tiers # << >>
        THEN SortByDiscountDesc(applicable_tiers)[1].discount_percentage
        ELSE IF group_size >= product.min_group_size
             THEN product.discount_percentage
             ELSE 0

\* order.unit_price * (1 - (discount_percentage / 100))
DiscountPrice(unit_price, discount_percentage) ==
    (unit_price * (100 - discount_percentage)) \div 100

(* ------------------------------ the store ------------------------------ *)

\* crud.get_active_group_buy, mutated: no row is ever found
get_active_group_buy_None(gs, product_id) == {}

\* crud.get_active_group_buy: the rows .first() may return
get_active_group_buy(gs, product_id) ==
    {g \in DOMAIN gs : gs[g].product_id = product_id /\ gs[g].is_active}

\* crud.get_incomplete_groups, mutated: the query has no filter
get_incomplete_groups_Unfiltered(gs) == DOMAIN gs

\* crud.get_incomplete_groups
get_incomplete_groups(gs) ==
    {g \in DOMAIN gs : gs[g].is_active /\ gs[g].current_count < gs[g].target_count}

\* crud.get_expired_groups, mutated: updated_at <= threshold_date
get_expired_groups_AtThreshold(gs) ==
    {g \in DOMAIN gs : /\ gs[g].is_active
                       /\ gs[g].updated_at <= 0 - ExpirationDays
                       /\ gs[g].current_count < gs[g].target_count}

\* crud.get_expired_groups; updated_at is kept relative to the present, so
\* the threshold datetime.utcnow() - timedelta(days=7) is -ExpirationDays.
get_expired_groups(gs) ==
    {g \in DOMAIN gs : /\ gs[g].is_active
                       /\ gs[g].updated_at < 0 - ExpirationDays
                       /\ gs[g].current_count < gs[g].target_count}

\* crud.get_orders_by_group
get_orders_by_group(os, group_id) ==
    {o \in DOMAIN os : os[o].group_buy_id = group_id}

\* GroupBuy(...) + db.add + db.commit
NewGroup(product_id, target_count, current_count, is_active) ==
    [product_id |-> product_id, current_count |-> current_count,
     target_count |-> target_count, is_active |-> is_active, updated_at |-> 0]

(* ------------------------- BaleAPI.send_message ------------------------ *)

\* what session.request does: answers 200, answers another status, or raises
Responses == {"200", "status", "exception"}

\* _make_request, mutated: without the try/except, the exception gets out
make_request_Unguarded(response) ==
    IF response = "200" THEN [ok |-> TRUE, raised |-> FALSE]
    ELSE IF response = "status" THEN [ok |-> FALSE, raised |-> FALSE]
    ELSE [ok |-> FALSE, raised |-> TRUE]

\* BaleAPI._make_request: the JSON of a 200, {"ok": False, ...} otherwise
make_request(response) ==
    IF response = "200" THEN [ok |-> TRUE, raised |-> FALSE]
    ELSE IF response = "status" THEN [ok |-> FALSE, raised |-> FALSE]
    ELSE [ok |-> FALSE, raised |-> FALSE]

send_message(response) == make_request(response)

\* `await bale_client.send_message(...)` as a statement of a handler whose
\* locals are rec: the value is dropped, an exception ends the handler.
\* send_failures counts the sends that did not succeed (a record of the
\* past, read by no step).
AwaitSend(rec, response) ==
    LET result == send_message(response)
    IN  IF result.raised THEN [rec EXCEPT !.pc = "raised"]
        ELSE IF result.ok THEN rec
        ELSE [rec EXCEPT !.send_failures = @ + 1]

(* --------------------- join_group (process_bale_update) ---------------- *)

NoCall == [pc |-> "ready", group_buy_id |-> 0, discount_percentage |-> 0,
           orders |-> << >>, was_active |-> FALSE, message |-> "",
           send_failures |-> 0]

\* crud.create_order with the values of the join_group branch
NewOrder(buyer_id, group_buy_id, product, seq) ==
    [buyer_id |-> buyer_id, group_buy_id |-> group_buy_id, quantity |-> 1,
     unit_price |-> product.price, discount_price |-> None,
     deposit_amount |-> (product.price * DepositPercent) \div 100,
     status |-> PENDING, created_at |-> seq]

\* crud.get_or_create_active_group_buy followed by crud.create_order; no
\* suspension point lies between them.
JoinGroup(product_id, buyer_id) ==
    /\ LET active == get_active_group_buy(groups, product_id)
           product == products[product_id]
       IN  \/ /\ active = {}
              /\ groups' = Append(groups,
                     NewGroup(product_id, product.min_group_size, 0, TRUE))
              /\ orders' = Append(orders,
                     NewOrder(buyer_id, Len(groups) + 1, product, Len(orders) + 1))
           \/ /\ active # {}
              /\ \E g \in active :
                   orders' = Append(orders,
                       NewOrder(buyer_id, g, product, Len(orders) + 1))
              /\ UNCHANGED groups
    /\ calls' = Append(calls, NoCall)
    /\ UNCHANGED <<tasks, resolver, webhook>>

NoResponse == [status_code |-> 0, detail |-> ""]

\* crud.get_product: the row, or Python's None
get_product(product_id) ==
    IF product_id \in ProductIds THEN products[product_id] ELSE "None"

\* The join_group callback for a product_id that names no product and has
\* no active group: get_or_create_active_group_buy finds no group, gets None
\* from get_product and raises AttributeError on product.min_group_size
\* (crud.py 120), before db.add; bale_webhook (main.py 53-55) turns any
\* exception into an HTTP 500.
JoinGroupNoProduct(product_id) ==
    /\ get_active_group_buy(groups, product_id) = {}
    /\ get_product(product_id) = "None"
    /\ webhook' = [status_code |-> 500,
                   detail |-> "'NoneType' object has no attribute 'min_group_size'"]
    /\ webhook' # webhook
    /\ UNCHANGED <<groups, orders, calls, tasks, resolver>>

(* --------------------------- process_new_order ------------------------- *)

\* the rows a query loads, as the session keeps them
Loaded(os, ids) ==
    [k \in 1..Len(ids) |-> [id |-> ids[k], unit_price |-> os[ids[k]].unit_price,
                            status |-> os[ids[k]].status,
                            discount_price |-> os[ids[k]].discount_price]]

\* line 31, mutated: complete only above the target
GroupComplete_Above(current_count, target_count) == current_count > target_count

\* line 31: group_buy.current_count >= group_buy.target_count
GroupComplete(current_count, target_count) == current_count >= target_count

\* lines 26-28, mutated: counting an order opens its group again
ProcessNewOrderBegin_Reopens(order_id) ==
    /\ order_id \in DOMAIN orders
    /\ calls[order_id].pc = "ready"
    /\ LET g == orders[order_id].group_buy_id
       IN  /\ groups' = [groups EXCEPT ![g].current_count = @ + 1,
                                       ![g].updated_at = 0,
                                       ![g].is_active = TRUE]
           /\ calls' = [calls EXCEPT ![order_id] =
                    [NoCall EXCEPT !.pc = "notify_pending", !.group_buy_id = g]]
    /\ UNCHANGED <<orders, tasks, resolver, webhook>>

\* lines 18-46 or 18-64: up to the first send_message
ProcessNewOrderBegin(order_id) ==
    /\ order_id \in DOMAIN orders
    /\ calls[order_id].pc = "ready"
    /\ LET g == orders[order_id].group_buy_id
           product == products[groups[g].product_id]
           count == groups[g].current_count + 1
       IN  /\ groups' = [groups EXCEPT ![g].current_count = count,
                                       ![g].updated_at = 0]
           /\ IF GroupComplete(count, groups[g].target_count)
              THEN calls' = [calls EXCEPT ![order_id] =
                       [pc |-> "notify_complete", group_buy_id |-> g,
                        discount_percentage |-> get_discount_percentage(product, count),
                        orders |-> Loaded(orders, Ascending(get_orders_by_group(orders, g))),
                        was_active |-> groups[g].is_active, message |-> "",
                        send_failures |-> 0]]
              ELSE calls' = [calls EXCEPT ![order_id] =
                       [NoCall EXCEPT !.pc = "notify_pending", !.group_buy_id = g]]
    /\ UNCHANGED <<orders, tasks, resolver, webhook>>

\* lines 40-43, mutated: only the newest order of the group is updated
ConfirmOrders_NewestOnly(os, loaded, discount_percentage) ==
    LET newest == loaded[Len(loaded)]
    IN  [os EXCEPT ![newest.id] =
            [@ EXCEPT !.discount_price =
                          DiscountPrice(newest.unit_price, discount_percentage),
                      !.status = CONFIRMED]]

\* the flush of the completion branch (db.commit() of line 55): an attribute
\* is written when the value assigned differs from the value loaded
ConfirmOrders(os, loaded, discount_percentage) ==
    [o \in DOMAIN os |->
        IF \E k \in DOMAIN loaded : loaded[k].id = o
        THEN LET row == CHOOSE r \in Range(loaded) : r.id = o
                 price == DiscountPrice(row.unit_price, discount_percentage)
             IN  [os[o] EXCEPT
                    !.discount_price = IF row.discount_price # price THEN price ELSE @,
                    !.status = IF row.status # CONFIRMED THEN CONFIRMED ELSE @]
        ELSE os[o]]

\* lines 46-61: the sends are over, db.commit(), return "Group buy completed"
ProcessNewOrderComplete(order_id) ==
    /\ order_id \in DOMAIN orders
    /\ calls[order_id].pc = "notify_complete"
    /\ LET call == calls[order_id]
           g == call.group_buy_id
       IN  /\ groups' = IF call.was_active
                        THEN [groups EXCEPT ![g].is_active = FALSE, ![g].updated_at = 0]
                        ELSE groups
           /\ orders' = ConfirmOrders(orders, call.orders, call.discount_percentage)
           /\ calls' = [calls EXCEPT ![order_id].pc = "returned",
                                     ![order_id].message = "Group buy completed"]
    /\ UNCHANGED <<tasks, resolver, webhook>>

\* lines 64-77, mutated: the pending branch closes the group as well
ProcessNewOrderPending_Deactivates(order_id) ==
    /\ order_id \in DOMAIN orders
    /\ calls[order_id].pc = "notify_pending"
    /\ groups' = [groups EXCEPT ![calls[order_id].group_buy_id].is_active = FALSE]
    /\ calls' = [calls EXCEPT ![order_id].pc = "returned",
                              ![order_id].message = "Added to group buy"]
    /\ UNCHANGED <<orders, tasks, resolver, webhook>>

\* lines 64-77: the send is over, return "Added to group buy"
ProcessNewOrderPending(order_id) ==
    /\ order_id \in DOMAIN orders
    /\ calls[order_id].pc = "notify_pending"
    /\ calls' = [calls EXCEPT ![order_id].pc = "returned",
                              ![order_id].message = "Added to group buy"]
    /\ UNCHANGED <<groups, orders, tasks, resolver, webhook>>

\* the caller has the result
ProcessNewOrderReturn(order_id) ==
    /\ order_id \in DOMAIN orders
    /\ calls[order_id].pc = "returned"
    /\ calls' = [calls EXCEPT ![order_id] =
                     [NoCall EXCEPT !.pc = "done",
                                    !.group_buy_id = calls[order_id].group_buy_id,
                                    !.message = calls[order_id].message]]
    /\ UNCHANGED <<groups, orders, tasks, resolver, webhook>>

(* ------------------------------- time ---------------------------------- *)

\* d days pass: every updated_at moves d days into the past.  Anything
\* older than ExpirationDays is expired alike, so the age stops there; the
\* updated_at of an inactive row is never read again and is left as it is.
Tick ==
    /\ \E d \in TickSteps :
         groups' = [g \in DOMAIN groups |->
            IF groups[g].is_active
            THEN [groups[g] EXCEPT !.updated_at =
                     IF @ - d < 0 - ExpirationDays - 1 THEN 0 - ExpirationDays - 1 ELSE @ - d]
            ELSE groups[g]]
    /\ groups' # groups
    /\ UNCHANGED <<orders, calls, tasks, resolver, webhook>>

(* ---------------------- rearrange_incomplete_groups -------------------- *)

IdleTask ==
    [kind |-> "idle", pc |-> "idle",
     expired_groups |-> << >>, gi |-> 0, orders |-> << >>, cancelled |-> << >>,
     product_groups |-> << >>, pi |-> 0, all_orders |-> << >>, i |-> 0,
     new_group |-> 0, results |-> << >>, message |-> "",
     before |-> [groups |-> << >>, orders |-> << >>], rearrange_calls |-> 0,
     found |-> [groups |-> << >>, orders |-> << >>], send_failures |-> 0]

\* lines 114-118: product_groups, a dict in insertion order
AddToProduct(product_groups, product_id, g) ==
    IF \E k \in DOMAIN product_groups : product_groups[k].product_id = product_id
    THEN [k \in DOMAIN product_groups |->
            IF product_groups[k].product_id = product_id
            THEN [product_groups[k] EXCEPT !.groups = Append(@, g)]
            ELSE product_groups[k]]
    ELSE Append(product_groups, [product_id |-> product_id, groups |-> << g >>])

RECURSIVE ProductGroups(_, _)
ProductGroups(gs, incomplete_groups) ==
    IF incomplete_groups = << >> THEN << >>
    ELSE LET g == incomplete_groups[Len(incomplete_groups)]
         IN  AddToProduct(
                 ProductGroups(gs, SubSeq(incomplete_groups, 1, Len(incomplete_groups) - 1)),
                 gs[g].product_id, g)

\* lines 127-130: all_orders.extend(orders) for each group.  The query has
\* no ORDER BY; the rows of a group are taken newest first, and the sort
\* that follows makes the result independent of that order.
RECURSIVE CollectOrders(_, _)
CollectOrders(os, grps) ==
    IF grps = << >> THEN << >>
    ELSE CollectOrders(os, SubSeq(grps, 1, Len(grps) - 1))
         \o Descending(get_orders_by_group(os, grps[Len(grps)]))

\* line 133: all_orders.sort(key=lambda x: x.created_at), a stable sort
RECURSIVE InsertByCreatedAt(_, _, _)
InsertByCreatedAt(os, sorted, o) ==
    IF sorted = << >> THEN << o >>
    ELSE IF os[Head(sorted)].created_at <= os[o].created_at
         THEN << Head(sorted) >> \o InsertByCreatedAt(os, Tail(sorted), o)
         ELSE << o >> \o sorted

\* line 133, mutated: the list is left in the order it was collected in
SortByCreatedAt_Unsorted(os, ids) == ids

RECURSIVE SortByCreatedAt(_, _)
SortByCreatedAt(os, ids) ==
    IF ids = << >> THEN << >>
    ELSE InsertByCreatedAt(os, SortByCreatedAt(os, SubSeq(ids, 1, Len(ids) - 1)),
                           ids[Len(ids)])

\* line 223
RearrangeReturn(st) ==
    [st EXCEPT !.task = [@ EXCEPT !.pc = "returned", !.message = "rearrangements",
                                  !.pi = 0, !.all_orders = << >>, !.i = 0,
                                  !.new_group = 0]]

\* lines 123-151: the products from the k-th on, up to the first send of a
\* product that yields a complete group, or to the return
RECURSIVE RearrangeProducts(_, _)
RearrangeProducts(st, k) ==
    IF k > Len(st.task.product_groups) THEN RearrangeReturn(st)
    ELSE LET pg == st.task.product_groups[k]
             product == products[pg.product_id]
             all_orders == SortByCreatedAt(st.orders, CollectOrders(st.orders, pg.groups))
             total_buyers == Len(all_orders)
             complete_groups_possible == total_buyers \div product.min_group_size
         IN  IF complete_groups_possible > 0
             THEN [groups |-> Append(st.groups,
                       NewGroup(pg.product_id, product.min_group_size,
                                product.min_group_size, FALSE)),
                   orders |-> st.orders,
                   task |-> [st.task EXCEPT !.pc = "notify_group", !.pi = k,
                                         !.all_orders = all_orders, !.i = 0,
                                         !.new_group = Len(st.groups) + 1]]
             ELSE RearrangeProducts(st, k + 1)

\* lines 218-221, then the next product
CloseOldGroups(st) ==
    LET old == Range(st.task.product_groups[st.task.pi].groups)
        gs == [g \in DOMAIN st.groups |->
                  IF g \in old
                  THEN [st.groups[g] EXCEPT !.is_active = FALSE, !.updated_at = 0]
                  ELSE st.groups[g]]
    IN  RearrangeProducts([st EXCEPT !.groups = gs], st.task.pi + 1)

\* lines 160-164, mutated: the status is left as it was
AssignConfirmed_KeepStatus(os, group_orders, new_group, discount_percentage) ==
    [o \in DOMAIN os |->
        IF o \in Range(group_orders)
        THEN [os[o] EXCEPT !.group_buy_id = new_group,
                           !.discount_price =
                               DiscountPrice(os[o].unit_price, discount_percentage)]
        ELSE os[o]]

\* lines 160-164 as flushed by the db.commit() of line 174
AssignConfirmed(os, group_orders, new_group, discount_percentage) ==
    [o \in DOMAIN os |->
        IF o \in Range(group_orders)
        THEN [os[o] EXCEPT !.group_buy_id = new_group,
                           !.status = CONFIRMED,
                           !.discount_price =
                               DiscountPrice(os[o].unit_price, discount_percentage)]
        ELSE os[o]]

\* lines 198-200, mutated: the remaining orders stay where they are
AssignRemaining_Unmoved(os, remaining_orders, new_active_group) == os

\* lines 198-200 as flushed by the db.commit() of line 209
AssignRemaining(os, remaining_orders, new_active_group) ==
    [o \in DOMAIN os |->
        IF o \in Range(remaining_orders)
        THEN [os[o] EXCEPT !.group_buy_id = new_active_group]
        ELSE os[o]]

\* lines 166-195 or 166-221: the sends of the i-th complete group are over
RearrangeGroupDone(st) ==
    LET t == st.task
        pg == t.product_groups[t.pi]
        product == products[pg.product_id]
        n == product.min_group_size
        complete_groups_possible == Len(t.all_orders) \div n
        remaining_count == Len(t.all_orders) % n
        group_orders == Slice(t.all_orders, t.i * n, t.i * n + n)
        discount_percentage == get_discount_percentage(product, n)
        os == AssignConfirmed(st.orders, group_orders, t.new_group, discount_percentage)
        results == Append(t.results,
                       [product_id |-> pg.product_id, new_group_id |-> t.new_group,
                        order_count |-> Len(group_orders),
                        discount_percentage |-> discount_percentage])
    IN  IF t.i + 1 < complete_groups_possible
        THEN [groups |-> Append(st.groups, NewGroup(pg.product_id, n, n, FALSE)),
              orders |-> os,
              task |-> [t EXCEPT !.results = results, !.i = t.i + 1,
                                 !.new_group = Len(st.groups) + 1]]
        ELSE IF remaining_count > 0
        THEN [groups |-> Append(st.groups,
                  NewGroup(pg.product_id, n, remaining_count, TRUE)),
              orders |-> os,
              task |-> [t EXCEPT !.results = results, !.pc = "notify_remaining",
                                 !.new_group = Len(st.groups) + 1]]
        ELSE CloseOldGroups([groups |-> st.groups, orders |-> os,
                             task |-> [t EXCEPT !.results = results]])

\* lines 203-221: the sends to the remaining buyers are over
RearrangeRemainingDone(st) ==
    LET t == st.task
        pg == t.product_groups[t.pi]
        n == products[pg.product_id].min_group_size
        complete_groups_possible == Len(t.all_orders) \div n
        remaining_count == Len(t.all_orders) % n
        remaining_orders == Slice(t.all_orders, complete_groups_possible * n,
                                  Len(t.all_orders))
        results == Append(t.results,
                       [product_id |-> pg.product_id,
                        new_active_group_id |-> t.new_group,
                        current_count |-> remaining_count, target_count |-> n])
    IN  CloseOldGroups([groups |-> st.groups,
                        orders |-> AssignRemaining(st.orders, remaining_orders, t.new_group),
                        task |-> [t EXCEPT !.results = results]])

\* lines 107-118, then the products.  before keeps the store as the call
\* found it and rearrange_calls counts the calls of the run (records of the
\* past, read by no step).
RearrangeBegin(st) ==
    LET incomplete_groups == Ascending(get_incomplete_groups(st.groups))
        task == [st.task EXCEPT !.before = [groups |-> st.groups, orders |-> st.orders],
                                !.rearrange_calls = @ + 1]
    IN  IF incomplete_groups = << >>
        THEN [st EXCEPT !.task = [task EXCEPT !.pc = "returned",
                            !.message = "No incomplete groups to rearrange"]]
        ELSE RearrangeProducts(
                 [st EXCEPT !.task = [task EXCEPT !.product_groups =
                                         ProductGroups(st.groups, incomplete_groups)]], 1)

(* -------------------------- check_expired_groups ----------------------- *)

\* lines 251-256 as flushed by the db.commit() of line 256
CancelOrders(os, loaded) ==
    [o \in DOMAIN os |->
        IF \E k \in DOMAIN loaded : loaded[k].id = o /\ loaded[k].status # CANCELLED
        THEN [os[o] EXCEPT !.status = CANCELLED]
        ELSE os[o]]

\* line 254, mutated: the expired groups are left active
DeactivateGroups_None(gs, ids) == gs

\* line 254 as flushed by the db.commit() of line 256
DeactivateGroups(gs, ids) ==
    [g \in DOMAIN gs |->
        IF g \in ids THEN [gs[g] EXCEPT !.is_active = FALSE, !.updated_at = 0]
        ELSE gs[g]]

\* lines 238-259: the expired groups from the k-th on, up to the first send,
\* or past the last group to the commit and into rearrange_incomplete_groups
RECURSIVE ExpireGroups(_, _)
ExpireGroups(st, k) ==
    IF k > Len(st.task.expired_groups)
    THEN RearrangeBegin(
             [groups |-> DeactivateGroups(st.groups, Range(st.task.expired_groups)),
              orders |-> CancelOrders(st.orders, st.task.cancelled),
              task |-> [st.task EXCEPT !.gi = 0, !.orders = << >>]])
    ELSE LET ids == Ascending(get_orders_by_group(st.orders, st.task.expired_groups[k]))
         IN  IF ids = << >>
             THEN ExpireGroups(st, k + 1)
             ELSE [st EXCEPT !.task = [@ EXCEPT !.pc = "notify_expired", !.gi = k,
                                                !.orders = Loaded(st.orders, ids)]]

\* lines 234-235, mutated: the sweep that finds no expired group goes on
\* to line 259 instead of returning
CheckExpiredBegin_AlwaysRearrange(st) ==
    LET expired_groups == Ascending(get_expired_groups(st.groups))
    IN  ExpireGroups([st EXCEPT !.task = [@ EXCEPT !.expired_groups = expired_groups]], 1)

\* lines 230-244
CheckExpiredBegin(st) ==
    LET expired_groups == Ascending(get_expired_groups(st.groups))
    IN  IF expired_groups = << >>
        THEN [st EXCEPT !.task = [@ EXCEPT !.pc = "returned",
                                           !.message = "No expired groups"]]
        ELSE ExpireGroups([st EXCEPT !.task = [@ EXCEPT !.expired_groups = expired_groups]], 1)

\* lines 244-259: the sends to the buyers of the gi-th expired group are over
ExpiredGroupDone(st) ==
    ExpireGroups([st EXCEPT !.task = [@ EXCEPT !.cancelled = @ \o st.task.orders,
                                               !.orders = << >>]],
                 st.task.gi + 1)

(* ------------------------------ task steps ----------------------------- *)

Store(t) == [groups |-> groups, orders |-> orders, task |-> tasks[t]]

Commit(t, st) ==
    /\ groups' = st.groups
    /\ orders' = st.orders
    /\ tasks' = [tasks EXCEPT ![t] = st.task]
    /\ UNCHANGED <<calls, resolver, webhook>>

RearrangeStart(t) ==
    /\ tasks[t].pc = "idle"
    /\ Commit(t, RearrangeBegin([groups |-> groups, orders |-> orders,
                                 task |-> [IdleTask EXCEPT !.kind = "rearrange"]]))

RearrangeGroupCommit(t) ==
    /\ tasks[t].pc = "notify_group"
    /\ Commit(t, RearrangeGroupDone(Store(t)))

RearrangeRemainingCommit(t) ==
    /\ tasks[t].pc = "notify_remaining"
    /\ Commit(t, RearrangeRemainingDone(Store(t)))

CheckExpiredStart(t) ==
    /\ tasks[t].pc = "idle"
    /\ Commit(t, CheckExpiredBegin([groups |-> groups, orders |-> orders,
                                    task |-> [IdleTask EXCEPT !.kind = "sweep"]]))

\* CheckExpiredStart with the store the call finds kept in found (a record
\* of the past, read by no step)
CheckExpiredStartRecorded(t) ==
    /\ tasks[t].pc = "idle"
    /\ Commit(t, CheckExpiredBegin(
                     [groups |-> groups, orders |-> orders,
                      task |-> [IdleTask EXCEPT
                                   !.kind = "sweep",
                                   !.found = [groups |-> groups, orders |-> orders]]]))

CheckExpiredCommit(t) ==
    /\ tasks[t].pc = "notify_expired"
    /\ Commit(t, ExpiredGroupDone(Store(t)))

\* the caller has the result
TaskReturn(t) ==
    /\ tasks[t].pc = "returned"
    /\ tasks' = [tasks EXCEPT ![t] = IdleTask]
    /\ UNCHANGED <<groups, orders, calls, resolver, webhook>>

\* one of the sends of process_new_order (line 46 or 64) does not succeed
CallSendFails(order_id) ==
    /\ calls[order_id].pc \in {"notify_complete", "notify_pending"}
    /\ calls[order_id].send_failures < MaxSendFailures
    /\ \E response \in Responses \ {"200"} :
           calls' = [calls EXCEPT ![order_id] = AwaitSend(@, response)]
    /\ UNCHANGED <<groups, orders, tasks, resolver, webhook>>

\* one of the sends of a rearrangement or a sweep (line 167, 203 or 244) does
\* not succeed
TaskSendFails(t) ==
    /\ tasks[t].pc \in {"notify_group", "notify_remaining", "notify_expired"}
    /\ tasks[t].send_failures < MaxSendFailures
    /\ \E response \in Responses \ {"200"} :
           tasks' = [tasks EXCEPT ![t] = AwaitSend(@, response)]
    /\ UNCHANGED <<groups, orders, calls, resolver, webhook>>

(* ---------------------------- specifications --------------------------- *)

NoResolve == [product |-> products[1], group_size |-> 0, result |-> None]

Init ==
    /\ groups = << >>
    /\ orders = << >>
    /\ calls = << >>
    /\ tasks = [t \in TaskIds |-> IdleTask]
    /\ resolver = NoResolve
    /\ webhook = NoResponse

\* Every join is another user's: crud.create_user gives the caller of
\* join_group a row of its own, and no handler reads buyer_id.
NewBuyer == Len(orders) + 1

\* no handler is between its first step and its return
Quiescent ==
    /\ \A t \in TaskIds : tasks[t].pc = "idle"
    /\ \A o \in DOMAIN calls : calls[o].pc \in {"ready", "done"}

\* Handlers one after the other: each runs from its call to its return
\* before the next one is called.
Next ==
    \/ Quiescent /\ Len(orders) < MaxOrders
                 /\ \E p \in ProductIds : JoinGroup(p, NewBuyer)
    \/ Quiescent /\ \E o \in DOMAIN orders : ProcessNewOrderBegin(o)
    \/ \E o \in DOMAIN orders : ProcessNewOrderComplete(o)
    \/ \E o \in DOMAIN orders : ProcessNewOrderPending(o)
    \/ \E o \in DOMAIN orders : ProcessNewOrderReturn(o)
    \/ Quiescent /\ RearrangeStart(1)
    \/ RearrangeGroupCommit(1)
    \/ RearrangeRemainingCommit(1)
    \/ Quiescent /\ CheckExpiredStart(1)
    \/ CheckExpiredCommit(1)
    \/ TaskReturn(1)
    \/ Quiescent /\ Tick

Spec == Init /\ [][Next]_vars

InFlight ==
    Cardinality({t \in TaskIds : tasks[t].pc # "idle"})
    + Cardinality({o \in DOMAIN calls : calls[o].pc \notin {"ready", "done"}})

\* Handlers interleaved at their suspension points, as the event loop
\* runs them.
NextConc ==
    \/ Len(orders) < MaxConcOrders /\ \E p \in ProductIds : JoinGroup(p, NewBuyer)
    \/ InFlight < MaxInFlight /\ \E o \in DOMAIN orders : ProcessNewOrderBegin(o)
    \/ \E o \in DOMAIN orders : ProcessNewOrderComplete(o)
    \/ \E o \in DOMAIN orders : ProcessNewOrderPending(o)
    \/ \E o \in DOMAIN orders : ProcessNewOrderReturn(o)
    \/ InFlight < MaxInFlight /\ \E t \in TaskIds : RearrangeStart(t)
    \/ \E t \in TaskIds : RearrangeGroupCommit(t)
    \/ \E t \in TaskIds : RearrangeRemainingCommit(t)
    \/ InFlight < MaxInFlight /\ \E t \in TaskIds : CheckExpiredStart(t)
    \/ \E t \in TaskIds : CheckExpiredCommit(t)
    \/ \E t \in TaskIds : TaskReturn(t)
    \/ Tick

SpecConc == Init /\ [][NextConc]_vars

\* Joins alone, one after the other: a join is the join_group callback
\* followed by process_new_order for the order it created.
AllProcessed == \A o \in DOMAIN calls : calls[o].pc = "done"

NextJoins ==
    \/ AllProcessed /\ Len(orders) < MaxOrders
                    /\ \E p \in ProductIds : JoinGroup(p, NewBuyer)
    \/ \E o \in DOMAIN orders : ProcessNewOrderBegin(o)
    \/ \E o \in DOMAIN orders : ProcessNewOrderComplete(o)
    \/ \E o \in DOMAIN orders : ProcessNewOrderPending(o)
    \/ \E o \in DOMAIN orders : ProcessNewOrderReturn(o)
    \/ AllProcessed /\ Tick

SpecJoins == Init /\ [][NextJoins]_vars

\* Joins alone, in any order: join_group callbacks and process_new_order
\* calls as their callers happen to make them, interleaved at the sends.
NextJoinsConc ==
    \/ Len(orders) < MaxOrders /\ \E p \in ProductIds : JoinGroup(p, NewBuyer)
    \/ \E o \in DOMAIN orders : ProcessNewOrderBegin(o)
    \/ \E o \in DOMAIN orders : ProcessNewOrderComplete(o)
    \/ \E o \in DOMAIN orders : ProcessNewOrderPending(o)
    \/ \E o \in DOMAIN orders : ProcessNewOrderReturn(o)
    \/ Tick

SpecJoinsConc == Init /\ [][NextJoinsConc]_vars

\* Two sweeps alone on a store that joins, one after the other, have built:
\* once a sweep has been called nothing else is, and the two runs of
\* check_expired_groups interleave at their sends.  The run of task 1 is the
\* one called first.
NoSweep == \A t \in TaskIds : tasks[t].pc = "idle"

NextSweeps ==
    \/ NoSweep /\ Quiescent /\ Len(orders) < MaxOrders
               /\ \E p \in ProductIds : JoinGroup(p, NewBuyer)
    \/ NoSweep /\ Quiescent /\ \E o \in DOMAIN orders : ProcessNewOrderBegin(o)
    \/ NoSweep /\ \E o \in DOMAIN orders : ProcessNewOrderComplete(o)
    \/ NoSweep /\ \E o \in DOMAIN orders : ProcessNewOrderPending(o)
    \/ NoSweep /\ \E o \in DOMAIN orders : ProcessNewOrderReturn(o)
    \/ NoSweep /\ Quiescent /\ Tick
    \/ Quiescent /\ CheckExpiredStartRecorded(1)
    \/ tasks[1].pc # "idle" /\ CheckExpiredStartRecorded(2)
    \/ \E t \in TaskIds : CheckExpiredCommit(t)
    \/ \E t \in TaskIds : RearrangeGroupCommit(t)
    \/ \E t \in TaskIds : RearrangeRemainingCommit(t)

SpecSweeps == Init /\ [][NextSweeps]_vars

\* Handlers one after the other, with sends that fail
NextSends ==
    \/ Next
    \/ \E o \in DOMAIN orders : CallSendFails(o)
    \/ TaskSendFails(1)

SpecSends == Init /\ [][NextSends]_vars

\* Handlers one after the other, with join_group callbacks that name a
\* product that does not exist
NextUnknown ==
    \/ Next
    \/ Quiescent /\ \E p \in UnknownProductIds : JoinGroupNoProduct(p)

SpecUnknown == Init /\ [][NextUnknown]_vars

\* Handlers one after the other, with time that advances: whenever no
\* handler is running and an active group can still age, days pass again;
\* and the caller of a sweep or a rearrangement that has returned takes the
\* result.  At most MaxOrders orders are created, so the joins of every
\* behaviour end.
SpecLive ==
    /\ Init
    /\ [][Next]_vars
    /\ SF_vars(Quiescent /\ Tick)
    /\ WF_vars(TaskReturn(1))

\* As SpecLive, with the join_group callback free to arrive while a sweep
\* or a rearrangement waits at one of its sends (the callback itself has no
\* suspension point before its order is stored).
NextLiveConc ==
    \/ Len(orders) < MaxConcOrders /\ \E p \in ProductIds : JoinGroup(p, NewBuyer)
    \/ Quiescent /\ \E o \in DOMAIN orders : ProcessNewOrderBegin(o)
    \/ \E o \in DOMAIN orders : ProcessNewOrderComplete(o)
    \/ \E o \in DOMAIN orders : ProcessNewOrderPending(o)
    \/ \E o \in DOMAIN orders : ProcessNewOrderReturn(o)
    \/ Quiescent /\ RearrangeStart(1)
    \/ RearrangeGroupCommit(1)
    \/ RearrangeRemainingCommit(1)
    \/ Quiescent /\ CheckExpiredStart(1)
    \/ CheckExpiredCommit(1)
    \/ TaskReturn(1)
    \/ Quiescent /\ Tick

SpecLiveConc ==
    /\ Init
    /\ [][NextLiveConc]_vars
    /\ SF_vars(Quiescent /\ Tick)
    /\ WF_vars(TaskReturn(1))

\* get_discount_percentage alone, on products and group sizes of its own
TierSizes == {2, 5, 10}
TierDiscounts == {5, 10, 15}
Tiers == [group_size : TierSizes, discount_percentage : TierDiscounts]
TierLists == UNION {[1..k -> Tiers] : k \in 0..MaxTiers}
ResolverProducts ==
    [price : {100}, min_group_size : {1, 3}, discount_percentage : {20},
     discount_tiers : TierLists]
GroupSizes == {0, 1, 2, 3, 5, 10}

InitResolver ==
    /\ groups = << >>
    /\ orders = << >>
    /\ calls = << >>
    /\ tasks = [t \in TaskIds |-> IdleTask]
    /\ resolver \in [product : ResolverProducts, group_size : GroupSizes, result : {None}]
    /\ webhook = NoResponse

Resolve ==
    /\ resolver.result = None
    /\ resolver' = [resolver EXCEPT
                       !.result = get_discount_percentage(resolver.product,
                                                          resolver.group_size)]
    /\ UNCHANGED <<groups, orders, calls, tasks, webhook>>

NextResolver == Resolve

SpecResolver == InitResolver /\ [][NextResolver]_vars

(* ------------------------------- claims -------------------------------- *)

NonCancelled(g) ==
    {o \in DOMAIN orders : orders[o].group_buy_id = g /\ orders[o].status # CANCELLED}

Completions(g) ==
    {o \in DOMAIN calls : /\ calls[o].message = "Group buy completed"
                          /\ calls[o].group_buy_id = g}

\* C1: in every reachable state the current_count of a product's active
\* group equals the number of its linked orders that are not CANCELLED.
C1_ActiveCountMatchesOrders ==
    \A g \in DOMAIN groups :
        groups[g].is_active => groups[g].current_count = Cardinality(NonCancelled(g))

\* C2: in every reachable state each product has at most one active GroupBuy.
C2_AtMostOneActiveGroup ==
    \A p \in ProductIds : Cardinality(get_active_group_buy(groups, p)) <= 1

\* C3: in every reachable state no GroupBuy has current_count above its
\* target_count.
C3_CountWithinTarget ==
    \A g \in DOMAIN groups : groups[g].current_count <= groups[g].target_count

\* C4: for any GroupBuy at most one process_new_order call returns
\* "Group buy completed".
C4_OneCompletionPerGroup ==
    \A g \in DOMAIN groups : Cardinality(Completions(g)) <= 1

\* C5: once an order's discount_price is set, no later step changes it.
C5_DiscountPriceSetOnce ==
    [][\A o \in DOMAIN orders :
           orders[o].discount_price # None
               => orders'[o].discount_price = orders[o].discount_price]_vars

\* C6: when a rearrangement or a sweep has returned, every GroupBuy's
\* current_count equals the number of its linked orders that are not
\* CANCELLED (stated for the stores whose orders have all been through
\* process_new_order, so that no order is waiting to be counted).
C6_CountMatchesAfterRearrangeOrSweep ==
    (tasks[1].pc = "returned" /\ AllProcessed)
        => \A g \in DOMAIN groups :
               groups[g].current_count = Cardinality(NonCancelled(g))

\* C7: get_discount_percentage returns the highest discount_percentage among
\* the tiers whose group_size is at most the group size when there is such a
\* tier, else the product's discount_percentage when the group size reaches
\* min_group_size, else 0.
C7_ResolverContract ==
    resolver.result # None =>
        LET product == resolver.product
            tiers == product.discount_tiers
            qualifying == {k \in DOMAIN tiers : tiers[k].group_size <= resolver.group_size}
        IN  IF qualifying # {}
            THEN /\ \E k \in qualifying : resolver.result = tiers[k].discount_percentage
                 /\ \A k \in qualifying : tiers[k].discount_percentage <= resolver.result
            ELSE IF resolver.group_size >= product.min_group_size
                 THEN resolver.result = product.discount_percentage
                 ELSE resolver.result = 0

\* tiers [(2,5),(5,15),(10,10)] at group size 10 have given 15
C7_Witness ==
    /\ resolver.product.discount_tiers =
           << [group_size |-> 2, discount_percentage |-> 5],
              [group_size |-> 5, discount_percentage |-> 15],
              [group_size |-> 10, discount_percentage |-> 10] >>
    /\ resolver.group_size = 10
    /\ resolver.result = 15

\* C8: when process_new_order has brought a group to its target, the group
\* is inactive and every order linked to it is CONFIRMED at
\* unit_price * (1 - d/100), d resolved for the final current_count.
C8_CompletionConfirmsEveryOrder ==
    \A c \in DOMAIN calls :
        (calls[c].pc = "returned" /\ calls[c].message = "Group buy completed") =>
            LET g == calls[c].group_buy_id
                d == get_discount_percentage(products[groups[g].product_id],
                                             groups[g].current_count)
            IN  /\ ~groups[g].is_active
                /\ groups[g].current_count >= groups[g].target_count
                /\ \A o \in get_orders_by_group(orders, g) :
                       /\ orders[o].status = CONFIRMED
                       /\ orders[o].discount_price * 100
                              = orders[o].unit_price * (100 - d)

\* a completion that found more orders in the group than the joiner's
C8_Witness ==
    \E c \in DOMAIN calls :
        /\ calls[c].pc = "returned"
        /\ calls[c].message = "Group buy completed"
        /\ Cardinality(get_orders_by_group(orders, calls[c].group_buy_id)) >= 2
        /\ groups[calls[c].group_buy_id].current_count
               = groups[calls[c].group_buy_id].target_count

\* C9: n joins run one after the other into a product of min_group_size n
\* that has no active group: the first n-1 return "Added to group buy", the
\* n-th returns "Group buy completed", after which the n orders have one
\* discount_price and the group is inactive.
C9_SequentialJoinsComplete ==
    \A g \in DOMAIN groups :
        LET joined == Ascending(get_orders_by_group(orders, g))
            n == products[groups[g].product_id].min_group_size
        IN  /\ Len(joined) <= n
            /\ \A k \in DOMAIN joined :
                   calls[joined[k]].pc \in {"returned", "done"} =>
                       /\ k < n => calls[joined[k]].message = "Added to group buy"
                       /\ k = n =>
                            /\ calls[joined[k]].message = "Group buy completed"
                            /\ ~groups[g].is_active
                            /\ \A j \in DOMAIN joined :
                                   /\ orders[joined[j]].discount_price # None
                                   /\ orders[joined[j]].discount_price
                                          = orders[joined[1]].discount_price

\* the third of three joins into product 2 has returned
C9_Witness ==
    \E g \in DOMAIN groups :
        /\ groups[g].product_id = 2
        /\ Cardinality(get_orders_by_group(orders, g)) = 3
        /\ \A o \in get_orders_by_group(orders, g) : calls[o].pc = "done"

\* the orders a rearrangement found in the incomplete active groups of p
Collected(before, p) ==
    {o \in DOMAIN before.orders :
        /\ before.orders[o].group_buy_id \in get_incomplete_groups(before.groups)
        /\ before.groups[before.orders[o].group_buy_id].product_id = p}

\* the groups of p that the run of task t created as complete groups
CreatedComplete(t, p) ==
    {g \in DOMAIN groups : /\ g > Len(tasks[t].before.groups)
                           /\ groups[g].product_id = p
                           /\ ~groups[g].is_active}

\* C10: a rearrangement that finds T orders in the incomplete active groups
\* of a product of min_group_size n, T \div n >= 1, creates exactly T \div n
\* inactive groups with target_count = current_count = n, each holding n
\* orders, all CONFIRMED at unit_price * (1 - resolve(product, n)/100).
C10_CompleteGroupsFormed ==
    tasks[1].pc = "returned" =>
        \A p \in ProductIds :
            LET n == products[p].min_group_size
                T == Cardinality(Collected(tasks[1].before, p))
                d == get_discount_percentage(products[p], n)
            IN  T \div n >= 1 =>
                    /\ Cardinality(CreatedComplete(1, p)) = T \div n
                    /\ \A g \in CreatedComplete(1, p) :
                           /\ groups[g].target_count = n
                           /\ groups[g].current_count = n
                           /\ Cardinality(get_orders_by_group(orders, g)) = n
                           /\ \A o \in get_orders_by_group(orders, g) :
                                  /\ o \in Collected(tasks[1].before, p)
                                  /\ orders[o].status = CONFIRMED
                                  /\ orders[o].discount_price * 100
                                         = orders[o].unit_price * (100 - d)

\* a rearrangement has formed two complete groups of one product
C10_Witness ==
    /\ tasks[1].pc = "returned"
    /\ \E p \in ProductIds :
           /\ Cardinality(Collected(tasks[1].before, p)) \div products[p].min_group_size = 2
           /\ Cardinality(CreatedComplete(1, p)) = 2

\* the groups of p that the run of task t created as active groups
CreatedActive(t, p) ==
    {g \in DOMAIN groups : /\ g > Len(tasks[t].before.groups)
                           /\ groups[g].product_id = p
                           /\ groups[g].is_active}

\* C11: a rearrangement that finds T orders in the incomplete active groups
\* of a product of min_group_size n, with r = T % n > 0, creates exactly one
\* active group with target_count = n and current_count = r, holding exactly
\* r of the collected orders, each still PENDING with a null discount_price.
C11_RemainderGroupFormed ==
    tasks[1].pc = "returned" =>
        \A p \in ProductIds :
            LET n == products[p].min_group_size
                T == Cardinality(Collected(tasks[1].before, p))
                r == T % n
            IN  r > 0 =>
                    /\ Cardinality(CreatedActive(1, p)) = 1
                    /\ \A g \in CreatedActive(1, p) :
                           /\ groups[g].target_count = n
                           /\ groups[g].current_count = r
                           /\ Cardinality(get_orders_by_group(orders, g)) = r
                           /\ \A o \in get_orders_by_group(orders, g) :
                                  /\ o \in Collected(tasks[1].before, p)
                                  /\ orders[o].status = PENDING
                                  /\ orders[o].discount_price = None

\* C11 for the rearrangements that formed a complete group (T \div n >= 1)
C11_RemainderGroupFormedAfterComplete ==
    tasks[1].pc = "returned" =>
        \A p \in ProductIds :
            LET n == products[p].min_group_size
                T == Cardinality(Collected(tasks[1].before, p))
                r == T % n
            IN  (T \div n >= 1 /\ r > 0) =>
                    /\ Cardinality(CreatedActive(1, p)) = 1
                    /\ \A g \in CreatedActive(1, p) :
                           /\ groups[g].target_count = n
                           /\ groups[g].current_count = r
                           /\ Cardinality(get_orders_by_group(orders, g)) = r
                           /\ \A o \in get_orders_by_group(orders, g) :
                                  /\ o \in Collected(tasks[1].before, p)
                                  /\ orders[o].status = PENDING
                                  /\ orders[o].discount_price = None

\* the number of collected orders of p created before o
Position(before, p, o) ==
    Cardinality({o2 \in Collected(before, p) :
                    orders[o2].created_at < orders[o].created_at})

\* the number of complete groups of p that the run of task t created before g
GroupIndex(t, p, g) == Cardinality({g2 \in CreatedComplete(t, p) : g2 < g})

\* C12: with the collected orders of a product taken in ascending
\* created_at, the k-th complete group a rearrangement created holds the
\* orders at positions k*n .. k*n+n-1, and every order of the remainder
\* group was created after every order of a complete group.
C12_EarliestJoinersFirst ==
    tasks[1].pc = "returned" =>
        \A p \in ProductIds :
            LET n == products[p].min_group_size
                C == Collected(tasks[1].before, p)
                full == Cardinality(C) \div n
            IN  full >= 1 =>
                    /\ \A g \in CreatedComplete(1, p) :
                           get_orders_by_group(orders, g)
                               = {o \in C : Position(tasks[1].before, p, o) \div n
                                                = GroupIndex(1, p, g)}
                    /\ \A g \in CreatedActive(1, p) :
                           \A o \in get_orders_by_group(orders, g) :
                               \A g2 \in CreatedComplete(1, p) :
                                   \A o2 \in get_orders_by_group(orders, g2) :
                                       orders[o2].created_at < orders[o].created_at

\* a rearrangement has formed a complete group and a remainder group
C12_Witness ==
    /\ tasks[1].pc = "returned"
    /\ \E p \in ProductIds :
           /\ CreatedComplete(1, p) # {}
           /\ \E g \in CreatedActive(1, p) : get_orders_by_group(orders, g) # {}

\* the incomplete active groups a rearrangement found with orders linked
Contributed(before) ==
    {g \in get_incomplete_groups(before.groups) :
        get_orders_by_group(before.orders, g) # {}}

\* C13: when rearrange_incomplete_groups has returned, every group that was
\* active and incomplete when it started and had orders linked is inactive.
C13_SourceGroupsInactive ==
    tasks[1].pc = "returned" =>
        \A g \in Contributed(tasks[1].before) : ~groups[g].is_active

\* C13 for the products of which a complete group could be formed
C13_SourceGroupsInactiveAfterComplete ==
    tasks[1].pc = "returned" =>
        \A g \in Contributed(tasks[1].before) :
            LET p == groups[g].product_id
            IN  Cardinality(Collected(tasks[1].before, p))
                    \div products[p].min_group_size >= 1
                => ~groups[g].is_active

\* C14: a rearrangement that finds 0 < T < n orders in the incomplete active
\* groups of a product creates no complete group and one new active group
\* with current_count = T that holds all T orders and is then the only
\* active group of the product.
C14_FewerThanGroupSizeConsolidated ==
    tasks[1].pc = "returned" =>
        \A p \in ProductIds :
            LET n == products[p].min_group_size
                C == Collected(tasks[1].before, p)
                T == Cardinality(C)
            IN  (0 < T /\ T < n) =>
                    /\ CreatedComplete(1, p) = {}
                    /\ Cardinality(CreatedActive(1, p)) = 1
                    /\ get_active_group_buy(groups, p) = CreatedActive(1, p)
                    /\ \A g \in CreatedActive(1, p) :
                           /\ groups[g].current_count = T
                           /\ groups[g].target_count = n
                           /\ get_orders_by_group(orders, g) = C

\* the groups a sweep is to select: active, last updated more than
\* ExpirationDays ago, and below their target
StaleIn(gs) ==
    {g \in DOMAIN gs : /\ gs[g].is_active
                       /\ gs[g].updated_at < 0 - ExpirationDays
                       /\ gs[g].current_count < gs[g].target_count}

Stale == StaleIn(groups)

\* C15: a sweep selects exactly the active groups below their target whose
\* updated_at is older than the threshold; when it has returned every
\* selected group is inactive and every order linked to one is CANCELLED;
\* and no step of the sweep sets an order of another group to CANCELLED.
C15_SweepCancelsExactlyExpired ==
    [][/\ (tasks[1].pc = "idle" /\ tasks'[1].kind = "sweep")
              => Range(tasks'[1].expired_groups) = Stale
       /\ (tasks'[1].kind = "sweep" /\ tasks'[1].pc = "returned")
              => \A g \in Range(tasks'[1].expired_groups) :
                     /\ ~groups'[g].is_active
                     /\ \A o \in get_orders_by_group(orders', g) :
                            orders'[o].status = CANCELLED
       /\ (tasks[1].kind = "sweep" \/ tasks'[1].kind = "sweep")
              => \A o \in DOMAIN orders :
                     (orders[o].status # CANCELLED /\ orders'[o].status = CANCELLED)
                         => orders[o].group_buy_id \in Range(tasks'[1].expired_groups)
      ]_vars

\* a sweep has returned that cancelled the orders of an expired group and
\* left an order of another group as it was
C15_Witness ==
    /\ tasks[1].kind = "sweep"
    /\ tasks[1].pc = "returned"
    /\ \E g \in Range(tasks[1].expired_groups) : get_orders_by_group(orders, g) # {}
    /\ \E o \in DOMAIN orders :
           /\ orders[o].group_buy_id \notin Range(tasks[1].expired_groups)
           /\ orders[o].status # CANCELLED
           /\ groups[orders[o].group_buy_id].is_active

\* the store as the rearrangement of task t found it has every expired
\* group of the run inactive and every order linked to one CANCELLED
ExpiredDoneBefore(t) ==
    \A g \in Range(tasks[t].expired_groups) :
        /\ ~tasks[t].before.groups[g].is_active
        /\ \A o \in get_orders_by_group(tasks[t].before.orders, g) :
               tasks[t].before.orders[o].status = CANCELLED

\* C16 as stated: every sweep that has returned has invoked
\* rearrange_incomplete_groups exactly once, after all its expired groups
\* were cancelled and marked inactive.
C16_RearrangeOncePerSweep ==
    (tasks[1].kind = "sweep" /\ tasks[1].pc = "returned") =>
        /\ tasks[1].rearrange_calls = 1
        /\ ExpiredDoneBefore(1)

\* C16, amended: a sweep invokes rearrange_incomplete_groups at most once
\* and only after all its expired groups were cancelled and marked
\* inactive; when it has returned it has invoked it exactly once if it found
\* an expired group, and not at all if it found none.
C16_RearrangeOncePerNonEmptySweep ==
    tasks[1].kind = "sweep" =>
        /\ tasks[1].rearrange_calls <= 1
        /\ tasks[1].rearrange_calls = 1 => ExpiredDoneBefore(1)
        /\ tasks[1].pc = "returned" =>
               tasks[1].rearrange_calls
                   = IF tasks[1].expired_groups # << >> THEN 1 ELSE 0

\* a sweep that cancelled a group with orders has invoked the rearrangement
\* and returned
C16_Witness ==
    /\ tasks[1].kind = "sweep"
    /\ tasks[1].pc = "returned"
    /\ tasks[1].rearrange_calls = 1
    /\ \E g \in Range(tasks[1].expired_groups) :
           get_orders_by_group(tasks[1].before.orders, g) # {}

\* C17: a sweep that finds no expired group returns "No expired groups" and
\* changes no group and no order; and a sweep that has returned leaves no
\* group that a sweep run at once, at the same time, would select.
C17_EmptySweepNoOp ==
    [][/\ (tasks[1].pc = "idle" /\ tasks'[1].kind = "sweep" /\ Stale = {})
              => /\ groups' = groups
                 /\ orders' = orders
                 /\ tasks'[1].pc = "returned"
                 /\ tasks'[1].message = "No expired groups"
       /\ (tasks'[1].kind = "sweep" /\ tasks'[1].pc = "returned")
              => StaleIn(groups') = {}
      ]_vars

\* a sweep has found nothing to expire in a store where an earlier sweep
\* cancelled an order
C17_Witness ==
    /\ tasks[1].kind = "sweep"
    /\ tasks[1].pc = "returned"
    /\ tasks[1].message = "No expired groups"
    /\ \E o \in DOMAIN orders : orders[o].status = CANCELLED
    /\ \E g \in DOMAIN groups : groups[g].is_active

\* a run of check_expired_groups from one of its sends to its return, with
\* nothing else running
RECURSIVE RunToReturn(_)
RunToReturn(st) ==
    IF st.task.pc = "notify_expired" THEN RunToReturn(ExpiredGroupDone(st))
    ELSE IF st.task.pc = "notify_group" THEN RunToReturn(RearrangeGroupDone(st))
    ELSE IF st.task.pc = "notify_remaining" THEN RunToReturn(RearrangeRemainingDone(st))
    ELSE st

\* the store a single sweep leaves of the store found
SingleSweep(found) ==
    RunToReturn(CheckExpiredBegin([groups |-> found.groups, orders |-> found.orders,
                                   task |-> [IdleTask EXCEPT !.kind = "sweep"]]))

\* C18: when two sweeps that overlapped have both returned, groups and orders
\* are what a single sweep leaves of the store the first one found, and no
\* group was taken as expired by both.
C18_OverlappingSweepsIdempotent ==
    (\A t \in TaskIds : tasks[t].kind = "sweep" /\ tasks[t].pc = "returned") =>
        /\ groups = SingleSweep(tasks[1].found).groups
        /\ orders = SingleSweep(tasks[1].found).orders
        /\ Range(tasks[1].expired_groups) \cap Range(tasks[2].expired_groups) = {}

\* the source groups that the run of task t has deactivated (lines 218-221):
\* the groups of the products for which it formed a complete group
Superseded(t) ==
    {g \in DOMAIN groups :
        \E k \in DOMAIN tasks[t].product_groups :
            /\ g \in Range(tasks[t].product_groups[k].groups)
            /\ \E r \in Range(tasks[t].results) :
                   r.product_id = tasks[t].product_groups[k].product_id}

\* C19: when a rearrangement has returned, no PENDING order is linked to a
\* source group it deactivated, whatever joins ran while it was running.
C19_NoPendingOrderInSupersededGroup ==
    \A t \in TaskIds :
        tasks[t].pc = "returned" =>
            \A g \in Superseded(t) :
                ~groups[g].is_active =>
                    \A o \in get_orders_by_group(orders, g) :
                        orders[o].status # PENDING

\* C20: no committed state has an active group whose current_count has
\* reached its target_count, nor a group at its target of which some linked
\* orders are CONFIRMED and others are not.
C20_CompletionAtomic ==
    \A g \in DOMAIN groups :
        /\ ~(groups[g].is_active /\ groups[g].current_count >= groups[g].target_count)
        /\ groups[g].current_count >= groups[g].target_count =>
               \/ \A o \in get_orders_by_group(orders, g) : orders[o].status = CONFIRMED
               \/ \A o \in get_orders_by_group(orders, g) : orders[o].status # CONFIRMED

\* C21: while a handler is in the sends of a unit of work, the mutations of
\* that unit are already in the committed store: the completed group is
\* inactive and its orders CONFIRMED, the orders of a new complete group are
\* linked to it and CONFIRMED, the orders of an expired group are CANCELLED.
C21_NotifyAfterCommit ==
    /\ \A c \in DOMAIN calls :
           calls[c].pc = "notify_complete" =>
               /\ ~groups[calls[c].group_buy_id].is_active
               /\ \A k \in DOMAIN calls[c].orders :
                      orders[calls[c].orders[k].id].status = CONFIRMED
    /\ tasks[1].pc = "notify_group" =>
           LET n == groups[tasks[1].new_group].target_count
           IN  \A o \in Range(Slice(tasks[1].all_orders, tasks[1].i * n,
                                    tasks[1].i * n + n)) :
                   /\ orders[o].group_buy_id = tasks[1].new_group
                   /\ orders[o].status = CONFIRMED
    /\ tasks[1].pc = "notify_expired" =>
           \A k \in DOMAIN tasks[1].orders :
               orders[tasks[1].orders[k].id].status = CANCELLED

\* no handler has been ended by an exception of a send
NoneRaised ==
    /\ \A c \in DOMAIN calls : calls[c].pc # "raised"
    /\ \A t \in TaskIds : tasks[t].pc # "raised"

\* the handlers that have returned after sends of theirs failed have done
\* all their work: the completed group is inactive with every order
\* CONFIRMED, the expired groups are inactive with every order CANCELLED, the
\* superseded groups are inactive with no order left
DoneDespiteFailures ==
    /\ \A c \in DOMAIN calls :
           (/\ calls[c].pc = "returned"
            /\ calls[c].send_failures > 0
            /\ calls[c].message = "Group buy completed") =>
               /\ ~groups[calls[c].group_buy_id].is_active
               /\ \A o \in get_orders_by_group(orders, calls[c].group_buy_id) :
                      orders[o].status = CONFIRMED
    /\ (tasks[1].pc = "returned" /\ tasks[1].send_failures > 0) =>
           /\ \A g \in Range(tasks[1].expired_groups) :
                  /\ ~groups[g].is_active
                  /\ \A o \in get_orders_by_group(orders, g) :
                         orders[o].status = CANCELLED
           /\ \A g \in Superseded(1) :
                  /\ ~groups[g].is_active
                  /\ get_orders_by_group(orders, g) = {}

\* C22: a send that fails changes no group and no order and leaves the
\* handler where it was, with all its locals; no handler is ended by it;
\* and the handler goes on to do all its work.
C22_SendFailuresIsolated ==
    [][/\ NoneRaised'
       /\ \A c \in DOMAIN calls :
              calls'[c].send_failures > calls[c].send_failures =>
                  /\ groups' = groups
                  /\ orders' = orders
                  /\ calls'[c] = [calls[c] EXCEPT !.send_failures = @ + 1]
       /\ tasks'[1].send_failures > tasks[1].send_failures =>
              /\ groups' = groups
              /\ orders' = orders
              /\ tasks'[1] = [tasks[1] EXCEPT !.send_failures = @ + 1]
       /\ DoneDespiteFailures'
      ]_vars

\* a join has completed a group although both its notifications failed
C22_Witness ==
    \E c \in DOMAIN calls :
        /\ calls[c].pc = "returned"
        /\ calls[c].message = "Group buy completed"
        /\ calls[c].send_failures >= 2

\* the active groups of product p
ActiveOf(p) ==
    {g \in DOMAIN groups : groups[g].product_id = p /\ groups[g].is_active}

\* C23: a step that creates an order creates exactly one, PENDING, at the
\* product's price with a deposit of a tenth of it and no discount_price; it
\* is linked to the active group of its product when there is one, and no
\* group is created then; otherwise to a new active group with
\* target_count = min_group_size and current_count = 0.
C23_JoinCreatesOneOrder ==
    [][Len(orders') # Len(orders) =>
          /\ Len(orders') = Len(orders) + 1
          /\ SubSeq(orders', 1, Len(orders)) = orders
          /\ LET order == orders'[Len(orders')]
             IN  \E p \in ProductIds :
                   /\ order.unit_price = products[p].price
                   /\ order.deposit_amount * 10 = products[p].price
                   /\ order.status = PENDING
                   /\ order.discount_price = None
                   /\ IF ActiveOf(p) = {}
                      THEN /\ groups' = Append(groups,
                                  [product_id |-> p, current_count |-> 0,
                                   target_count |-> products[p].min_group_size,
                                   is_active |-> TRUE, updated_at |-> 0])
                           /\ order.group_buy_id = Len(groups')
                      ELSE /\ groups' = groups
                           /\ order.group_buy_id \in ActiveOf(p)
      ]_vars

\* a second order has joined the active group the first one created
C23_Witness ==
    /\ Len(groups) = 1
    /\ Len(orders) = 2
    /\ groups[1].is_active
    /\ \A o \in DOMAIN orders : orders[o].group_buy_id = 1 /\ calls[o].pc = "ready"

\* C24: the answer to a join_group callback for a product that does not
\* exist is a NotFound (HTTP 404), and no group and no order is created.
C24_UnknownProductNotFound ==
    [][webhook' # webhook =>
          /\ webhook'.status_code = 404
          /\ groups' = groups
          /\ orders' = orders
      ]_vars

\* the store part of C24 alone
C24_UnknownProductStoreUnchanged ==
    [][webhook' # webhook => groups' = groups /\ orders' = orders]_vars

\* C25: a join that leaves current_count below target_count takes the
\* pending branch and returns "Added to group buy"; the group was active and
\* stays active; of the group only current_count (+1, and with it the
\* updated_at stamp) changes; every other group and every order, the new one
\* included, is as the join_group callback left it.
C25_PendingJoinFrame ==
    [][\A o \in DOMAIN calls :
          LET g == orders[o].group_buy_id
          IN  /\ (calls[o].pc = "ready" /\ calls'[o].pc # "ready") =>
                   /\ (calls'[o].pc = "notify_pending") <=>
                          (groups[g].current_count + 1 < groups[g].target_count)
                   /\ calls'[o].pc = "notify_pending" =>
                          /\ groups[g].is_active /\ groups'[g].is_active
                          /\ groups'[g].current_count = groups[g].current_count + 1
                          /\ groups'[g] = [groups[g] EXCEPT
                                 !.current_count = @ + 1,
                                 !.updated_at = groups'[g].updated_at]
                          /\ DOMAIN groups' = DOMAIN groups
                          /\ \A h \in DOMAIN groups \ {g} : groups'[h] = groups[h]
                          /\ orders' = orders
                          /\ orders[o].status = PENDING
                          /\ orders[o].discount_price = None
              /\ (calls[o].pc = "notify_pending" /\ calls'[o].pc # "notify_pending") =>
                   /\ calls'[o].pc = "returned"
                   /\ calls'[o].message = "Added to group buy"
                   /\ groups' = groups /\ orders' = orders
              /\ (calls[o].pc = "returned" /\ calls'[o].pc # "returned") =>
                   /\ calls'[o].pc = "done"
                   /\ calls'[o].message = calls[o].message
                   /\ groups' = groups /\ orders' = orders
      ]_vars

\* a second join of a product of group size 3 has returned pending
C25_Witness ==
    \E o \in DOMAIN calls :
        /\ calls[o].pc = "done"
        /\ calls[o].message = "Added to group buy"
        /\ groups[orders[o].group_buy_id].is_active
        /\ groups[orders[o].group_buy_id].current_count = 2
        /\ groups[orders[o].group_buy_id].target_count > 2

\* C26: an order the sweep has set to CANCELLED stays CANCELLED and gets no
\* discount_price, whatever handler runs afterwards.
C26_CancelledStaysCancelled ==
    [][\A o \in DOMAIN orders :
          orders[o].status = CANCELLED =>
              /\ orders'[o].status = CANCELLED
              /\ orders'[o].discount_price = orders[o].discount_price
      ]_vars

\* C26 for rearrangement and sweep alone: the steps of process_new_order
\* are left out
C26_CancelledStaysCancelledWithoutJoins ==
    [][calls' = calls =>
          \A o \in DOMAIN orders :
              orders[o].status = CANCELLED =>
                  /\ orders'[o].status = CANCELLED
                  /\ orders'[o].discount_price = orders[o].discount_price
      ]_vars

\* C27: no step makes an inactive group active again, and no step changes
\* the target_count of a group.
C27_ActiveOnlyFalls ==
    [][\A g \in DOMAIN groups :
          /\ g \in DOMAIN groups'
          /\ ~groups[g].is_active => ~groups'[g].is_active
          /\ groups'[g].target_count = groups[g].target_count
      ]_vars

\* groups closed in the three ways: completed by a join, expired by a sweep,
\* superseded by a rearrangement
C27_Witness ==
    /\ \E g \in DOMAIN groups :
          /\ ~groups[g].is_active
          /\ \E o \in DOMAIN orders :
                orders[o].group_buy_id = g /\ orders[o].status = CANCELLED
    /\ \E g \in DOMAIN groups :
          /\ ~groups[g].is_active
          /\ \E o \in DOMAIN calls :
                calls[o].group_buy_id = g /\ calls[o].message = "Group buy completed"
    /\ \E g \in DOMAIN groups :
          /\ ~groups[g].is_active
          /\ groups[g].current_count > 0
          /\ get_orders_by_group(orders, g) = {}

\* C28: when rearrange_incomplete_groups has returned, the orders are those
\* it found, each with the buyer, quantity, unit_price, deposit_amount and
\* created_at it had; and for a product of which a complete group could be
\* formed, every order found in one of its incomplete active groups is linked
\* to a group of that product that the run created, and so to no source
\* group.
C28_RearrangementConservesOrders ==
    (tasks[1].pc = "returned" /\ tasks[1].rearrange_calls > 0) =>
        LET before == tasks[1].before
        IN  /\ DOMAIN orders = DOMAIN before.orders
            /\ \A o \in DOMAIN orders :
                   /\ orders[o].buyer_id = before.orders[o].buyer_id
                   /\ orders[o].unit_price = before.orders[o].unit_price
                   /\ orders[o].quantity = before.orders[o].quantity
                   /\ orders[o].deposit_amount = before.orders[o].deposit_amount
                   /\ orders[o].created_at = before.orders[o].created_at
            /\ \A p \in ProductIds :
                   Cardinality(Collected(before, p)) \div products[p].min_group_size >= 1 =>
                       \A o \in Collected(before, p) :
                           /\ orders[o].group_buy_id \in DOMAIN groups
                           /\ orders[o].group_buy_id > Len(before.groups)
                           /\ orders[o].group_buy_id
                                  \in CreatedComplete(1, p) \cup CreatedActive(1, p)
                           /\ orders[o].group_buy_id
                                  \notin get_incomplete_groups(before.groups)
            /\ \A g \in get_incomplete_groups(before.groups) :
                   LET p == before.groups[g].product_id
                   IN  Cardinality(Collected(before, p))
                           \div products[p].min_group_size >= 1
                       => get_orders_by_group(orders, g) = {}

\* a rearrangement has moved three orders of a product of group size 2: two
\* into a complete group and one into a new active group
C28_Witness ==
    /\ tasks[1].pc = "returned"
    /\ tasks[1].rearrange_calls > 0
    /\ \E p \in ProductIds :
           /\ products[p].min_group_size = 2
           /\ Cardinality(Collected(tasks[1].before, p)) = 3
           /\ \E g \in CreatedComplete(1, p) :
                  Cardinality(get_orders_by_group(orders, g)) = 2
           /\ \E g \in CreatedActive(1, p) :
                  Cardinality(get_orders_by_group(orders, g)) = 1

\* the store and task a run of rearrange_incomplete_groups, taken from its
\* call to its return with nothing in between, leaves of the store st
SecondRearrangement(gs, os) ==
    RunToReturn(RearrangeBegin([groups |-> gs, orders |-> os,
                                task |-> [IdleTask EXCEPT !.kind = "rearrange"]]))

\* C29: when rearrange_incomplete_groups has returned, a second run started
\* on the store it left creates no group, changes no group and no order, and
\* reports no rearrangement.
C29_RearrangeTwiceIsRearrangeOnce ==
    (tasks[1].pc = "returned" /\ tasks[1].rearrange_calls > 0) =>
        LET second == SecondRearrangement(groups, orders)
        IN  /\ second.groups = groups
            /\ second.orders = orders
            /\ second.task.results = << >>

\* the first run formed a complete group and left a remainder group with an
\* order, so the second run has an incomplete group with orders to look at
C29_Witness ==
    /\ tasks[1].pc = "returned"
    /\ tasks[1].rearrange_calls > 0
    /\ tasks[1].results # << >>
    /\ \E g \in get_incomplete_groups(groups) :
           /\ g > Len(tasks[1].before.groups)
           /\ get_orders_by_group(orders, g) # {}
    /\ SecondRearrangement(groups, orders).task.product_groups # << >>

\* a tier of the product qualifies for the group size
TierQualifies(product, group_size) ==
    \E k \in DOMAIN product.discount_tiers :
        product.discount_tiers[k].group_size <= group_size

\* C30: the discount resolved for a group size is at least the discount
\* resolved for every smaller group size of the same product.
C30_ResolverMonotone ==
    resolver.result # None =>
        \A s1 \in GroupSizes :
            s1 <= resolver.group_size =>
                get_discount_percentage(resolver.product, s1) <= resolver.result

\* C30 for two group sizes resolved by the same branch: a tier qualifies
\* for both, or for neither
C30_ResolverMonotoneWithinBranch ==
    resolver.result # None =>
        \A s1 \in GroupSizes :
            (/\ s1 <= resolver.group_size
             /\ TierQualifies(resolver.product, s1)
                    <=> TierQualifies(resolver.product, resolver.group_size)) =>
                get_discount_percentage(resolver.product, s1) <= resolver.result

\* every order is CONFIRMED or CANCELLED and no group is active
Settled ==
    /\ \A o \in DOMAIN orders : orders[o].status \in {CONFIRMED, CANCELLED}
    /\ \A g \in DOMAIN groups : ~groups[g].is_active

\* a run of check_expired_groups is at its return
SweepReturned == tasks[1].kind = "sweep" /\ tasks[1].pc = "returned"

\* C31: with time advancing, if sweeps are run again and again (a sweep is
\* at its return infinitely often), then once the joins have ended the store
\* comes to a state, and stays in it, where every order is CONFIRMED or
\* CANCELLED and no group is active.
C31_EventuallySettled == []<>SweepReturned => <>[]Settled

\* the store is settled, and an order that a rearrangement had moved into a
\* new active group (a group created with current_count > 0 for orders that
\* process_new_order never counted) has been cancelled with that group
C31_Witness ==
    /\ Settled
    /\ \E g \in DOMAIN groups :
           /\ groups[g].current_count > 0
           /\ get_orders_by_group(orders, g) # {}
           /\ \A o \in get_orders_by_group(orders, g) :
                  orders[o].status = CANCELLED /\ calls[o].pc = "ready"

====
